---- MODULE Spec2Model ----
(***************************************************************************)
(* Model of jobmatching.py: the "Analyze Resume" handler, the PDF text     *)
(* extraction chain (pypdf, pdfplumber, OCR), the canonical skill          *)
(* taxonomy matcher and the two scoring functions.                         *)
(*                                                                         *)
(* Text is a sequence of one-character strings.  Scores are integers in    *)
(* hundredths of a percent (100.0 is 10000); a cosine similarity is an     *)
(* integer in units of 1/100000.                                           *)
(***************************************************************************)
EXTENDS Integers, Sequences, FiniteSets, TLC

VARIABLES
    pc,                  \* position in the handler / the extraction chain
    resume_file,         \* TRUE when a PDF was uploaded, FALSE for None
    manual_resume_text,  \* the optional pasted resume text
    job_description,     \* the pasted job description
    pos,                 \* read position of the uploaded buffer
    text,                \* accumulator of extract_text_from_pdf
    resume_text,
    jd_text,
    resume_skills,
    jd_skills,
    similarity,          \* cosine similarity returned for the embeddings
    semantic_score,
    keyword_score,
    final_score,
    feedback,
    calls,               \* history: the strategies invoked, in order
    startPos,            \* history: buffer position at which each strategy began
    out,                 \* history: text produced by each strategy
    failed               \* history: the capabilities that raised

vars == <<pc, resume_file, manual_resume_text, job_description, pos, text,
          resume_text, jd_text, resume_skills, jd_skills, similarity,
          semantic_score, keyword_score, final_score, feedback, calls,
          startPos, out, failed>>

\* ------------------------------------------------------------ bounds
\* Most pages a reader returns and most images the rasterizer returns.
MaxPages == 1
\* Size of the uploaded buffer, in read-position units.
BufLen == 1
\* Largest SkillSet drawn in the scoring specification.
MaxSkills == 2

\* ------------------------------------------------------------ constants
\* The length under which text counts as insufficient (lines 152 and 234).
MinTextLen == 100
\* The stricter presentation-layer length (line 242).
MinTextLenStrict == 50

\* ------------------------------------------------------------ text
Whitespace == {" ", "\t", "\n", "\r"}

IsSpace(c) == c \in Whitespace

UpperCase == <<"A","B","C","D","E","F","G","H","I","J","K","L","M","N","O","P","Q","R","S","T","U","V","W","X","Y","Z">>

LowerCase == <<"a","b","c","d","e","f","g","h","i","j","k","l","m","n","o","p","q","r","s","t","u","v","w","x","y","z">>

\* str.lower() on one character
LowerChar(c) ==
    IF \E i \in 1..Len(UpperCase) : UpperCase[i] = c
    THEN LowerCase[CHOOSE i \in 1..Len(UpperCase) : UpperCase[i] = c]
    ELSE c

\* str.lower()
lower(t) == [i \in 1..Len(t) |-> LowerChar(t[i])]

\* str.strip(): drop leading and trailing whitespace
strip(t) ==
    IF \A i \in 1..Len(t) : IsSpace(t[i]) THEN <<>>
    ELSE LET lo == CHOOSE i \in 1..Len(t) :
                       ~IsSpace(t[i]) /\ \A j \in 1..(i-1) : IsSpace(t[j])
             hi == CHOOSE i \in 1..Len(t) :
                       ~IsSpace(t[i]) /\ \A j \in (i+1)..Len(t) : IsSpace(t[j])
         IN  SubSeq(t, lo, hi)

\* re.sub(r"\s+", " ", text): every run of whitespace becomes one space
collapse_whitespace(t) ==
    LET Kept(c) == c # ""
        m == [i \in 1..Len(t) |->
                IF IsSpace(t[i])
                THEN IF i > 1 /\ IsSpace(t[i-1]) THEN "" ELSE " "
                ELSE t[i]]
    IN  SelectSeq(m, Kept)

\* clean_text, line 161
clean_text(t) == strip(collapse_whitespace(t))

\* The mutant of Contains that matches whole words only.
Contains_word(t, k) ==
    \E i \in 0..(Len(t) - Len(k)) :
        /\ \A j \in 1..Len(k) : t[i + j] = k[j]
        /\ i = 0 \/ IsSpace(t[i])
        /\ i + Len(k) = Len(t) \/ IsSpace(t[i + Len(k) + 1])

\* `k in text` for strings: k occurs as a contiguous substring
Contains(t, k) ==
    \E i \in 0..(Len(t) - Len(k)) :
        \A j \in 1..Len(k) : t[i + j] = k[j]

\* ------------------------------------------------------------ taxonomy
Taxonomy == <<
    [tag |-> "digital marketing", triggers |-> <<
        <<"s","e","o">>, <<"s","e","m">>, <<"d","i","g","i","t","a","l"," ","m","a","r","k","e","t","i","n","g">>, <<"c","o","n","t","e","n","t"," ","m","a","r","k","e","t","i","n","g">>,
        <<"g","o","o","g","l","e"," ","a","d","s">>, <<"f","a","c","e","b","o","o","k"," ","a","d","s">>, <<"s","o","c","i","a","l"," ","m","e","d","i","a"," ","m","a","r","k","e","t","i","n","g">> >>],
    [tag |-> "software development", triggers |-> <<
        <<"s","o","f","t","w","a","r","e">>, <<"d","e","v","e","l","o","p","e","r">>, <<"e","n","g","i","n","e","e","r","i","n","g">>,
        <<"j","a","v","a">>, <<"p","y","t","h","o","n">>, <<"c","+","+">>, <<"j","a","v","a","s","c","r","i","p","t">>,
        <<"h","t","m","l">>, <<"c","s","s">>, <<"s","q","l">>, <<"s","p","r","i","n","g">>, <<"d","j","a","n","g","o">>, <<"f","l","a","s","k">> >>],
    [tag |-> "web development", triggers |-> <<
        <<"w","e","b"," ","d","e","v","e","l","o","p","e","r">>, <<"f","r","o","n","t","e","n","d">>, <<"b","a","c","k","e","n","d">>, <<"f","u","l","l"," ","s","t","a","c","k">>,
        <<"r","e","a","c","t">>, <<"a","n","g","u","l","a","r">>, <<"v","u","e">>, <<"n","o","d","e">>, <<"e","x","p","r","e","s","s">> >>],
    [tag |-> "ui ux design", triggers |-> <<
        <<"u","i">>, <<"u","x">>, <<"u","s","e","r"," ","i","n","t","e","r","f","a","c","e">>, <<"u","s","e","r"," ","e","x","p","e","r","i","e","n","c","e">>,
        <<"f","i","g","m","a">>, <<"a","d","o","b","e"," ","x","d">>, <<"w","i","r","e","f","r","a","m","e">>, <<"p","r","o","t","o","t","y","p","e">> >>],
    [tag |-> "machine learning", triggers |-> <<
        <<"a","i">>, <<"m","l">>, <<"m","a","c","h","i","n","e"," ","l","e","a","r","n","i","n","g">>, <<"d","e","e","p"," ","l","e","a","r","n","i","n","g">>,
        <<"c","n","n">>, <<"r","n","n">>, <<"n","l","p">>, <<"c","o","m","p","u","t","e","r"," ","v","i","s","i","o","n">> >>],
    [tag |-> "data science", triggers |-> <<
        <<"d","a","t","a"," ","s","c","i","e","n","t","i","s","t">>, <<"d","a","t","a"," ","s","c","i","e","n","c","e">>, <<"d","a","t","a"," ","a","n","a","l","y","s","t">>,
        <<"p","a","n","d","a","s">>, <<"n","u","m","p","y">>, <<"m","a","t","p","l","o","t","l","i","b">>, <<"s","t","a","t","i","s","t","i","c","s">>,
        <<"p","o","w","e","r"," ","b","i">>, <<"t","a","b","l","e","a","u">>, <<"e","x","c","e","l">> >>],
    [tag |-> "cloud devops", triggers |-> <<
        <<"a","w","s">>, <<"a","z","u","r","e">>, <<"g","c","p">>, <<"c","l","o","u","d"," ","c","o","m","p","u","t","i","n","g">>,
        <<"d","e","v","o","p","s">>, <<"d","o","c","k","e","r">>, <<"k","u","b","e","r","n","e","t","e","s">>, <<"c","i","/","c","d">> >>],
    [tag |-> "cybersecurity", triggers |-> <<
        <<"c","y","b","e","r"," ","s","e","c","u","r","i","t","y">>, <<"c","y","b","e","r","s","e","c","u","r","i","t","y">>, <<"e","t","h","i","c","a","l"," ","h","a","c","k","i","n","g">>,
        <<"p","e","n","e","t","r","a","t","i","o","n"," ","t","e","s","t","i","n","g">>, <<"n","e","t","w","o","r","k"," ","s","e","c","u","r","i","t","y">>, <<"s","o","c">> >>],
    [tag |-> "mobile app development", triggers |-> <<
        <<"a","n","d","r","o","i","d">>, <<"i","o","s">>, <<"m","o","b","i","l","e"," ","a","p","p">>, <<"f","l","u","t","t","e","r">>,
        <<"r","e","a","c","t"," ","n","a","t","i","v","e">>, <<"k","o","t","l","i","n">>, <<"s","w","i","f","t">> >>],
    [tag |-> "software testing", triggers |-> <<
        <<"s","o","f","t","w","a","r","e"," ","t","e","s","t","i","n","g">>, <<"q","a">>, <<"q","u","a","l","i","t","y"," ","a","s","s","u","r","a","n","c","e">>,
        <<"m","a","n","u","a","l"," ","t","e","s","t","i","n","g">>, <<"a","u","t","o","m","a","t","i","o","n"," ","t","e","s","t","i","n","g">>,
        <<"s","e","l","e","n","i","u","m">>, <<"j","u","n","i","t">> >>],
    [tag |-> "business management", triggers |-> <<
        <<"b","u","s","i","n","e","s","s"," ","a","n","a","l","y","s","t">>, <<"p","r","o","j","e","c","t"," ","m","a","n","a","g","e","r">>,
        <<"p","r","o","d","u","c","t"," ","m","a","n","a","g","e","r">>, <<"a","g","i","l","e">>, <<"s","c","r","u","m">> >>],
    [tag |-> "finance accounting", triggers |-> <<
        <<"f","i","n","a","n","c","e">>, <<"a","c","c","o","u","n","t","i","n","g">>, <<"t","a","l","l","y">>, <<"g","s","t">>,
        <<"a","u","d","i","t","i","n","g">>, <<"f","i","n","a","n","c","i","a","l"," ","a","n","a","l","y","s","i","s">> >>],
    [tag |-> "human resources", triggers |-> <<
        <<"h","u","m","a","n"," ","r","e","s","o","u","r","c","e","s">>, <<"h","r">>, <<"r","e","c","r","u","i","t","m","e","n","t">>,
        <<"t","a","l","e","n","t"," ","a","c","q","u","i","s","i","t","i","o","n">>, <<"p","a","y","r","o","l","l">> >> ] >>

Tags == {Taxonomy[n].tag : n \in 1..Len(Taxonomy)}

\* any(k in text for k in [...]) for one taxonomy entry
AnyTrigger(t, entry) ==
    \E n \in 1..Len(entry.triggers) : Contains(t, entry.triggers[n])

\* extract_canonical_skills, line 19
extract_canonical_skills(t) ==
    LET low == lower(t)
    IN  {Taxonomy[n].tag : n \in {m \in 1..Len(Taxonomy) : AnyTrigger(low, Taxonomy[m])}}

\* ------------------------------------------------------------ scoring
\* round(a / b) to the nearest integer, ties to even (b > 0)
RoundDiv(a, b) ==
    LET q == a \div b
        r == a % b
    IN  IF 2 * r < b THEN q
        ELSE IF 2 * r > b THEN q + 1
        ELSE IF q % 2 = 0 THEN q ELSE q + 1

\* semantic_match_score, line 165, for the cosine similarity sim the
\* embedding capability yields: round(score * 100, 2), in hundredths.
semantic_match_score(sim) == RoundDiv(sim * 100 * 100, 100000)

\* The mutant of keyword_match_score that divides by the resume's size.
keyword_match_score_resume(rs, js) ==
    IF js = {} THEN 0
    ELSE IF rs = {} THEN 0
    ELSE RoundDiv(Cardinality(rs \cap js) * 100 * 100, Cardinality(rs))

\* keyword_match_score, line 173
keyword_match_score(rs, js) ==
    IF js = {} THEN 0
    ELSE RoundDiv(Cardinality(rs \cap js) * 100 * 100, Cardinality(js))

\* final_score, line 261: round(semantic * 0.7 + keyword * 0.3, 2)
combined_score(sem, kw) == RoundDiv(sem * 7 + kw * 3, 10)

\* generate_ai_feedback, line 180: the three tag lists of the report
generate_ai_feedback(score, rs, js) ==
    [score |-> score, matched |-> rs \cap js,
     missing |-> js \ rs, extra |-> rs \ js]

\* ------------------------------------------------------------ inputs
Pad(n) == [i \in 1..n |-> "z"]

\* The text of the taxonomy scenario.
ScenarioText == <<"p","y","t","h","o","n"," ","d","e","v","e","l","o","p","e","r"," ","b","u","i","l","d","i","n","g"," ","r","e","a","c","t"," ","a","p","p","s">>

EmptyPage == <<>>

BlankPage == <<" ","\n">>

ShortPage == <<"s","q","l"," "," ","j","a","v","a">>

\* 107 characters, three tags
LongPage == <<"P","y","t","h","o","n"," ","D","e","v","e","l","o","p","e","r"," ","b","u","i","l","d","i","n","g"," ","R","e","a","c","t"," ","a","p","p","s">> \o <<" ">> \o Pad(70)

\* 102 characters after trimming, only two of them not whitespace
GappyPage == [i \in 1..102 |-> IF i \in {1, 102} THEN "q" ELSE " "]

\* What a reader can return for one page.
PageTexts == {EmptyPage, BlankPage, ShortPage, LongPage, GappyPage}

PageSeqs == UNION {[1..k -> PageTexts] : k \in 0..MaxPages}

\* What the OCR engine can recognize in one image.
ImageTexts == {EmptyPage, ShortPage, LongPage}

ImageSeqs == UNION {[1..k -> ImageTexts] : k \in 0..MaxPages}

ManualShort == <<"j","a","v","a"," ","d","e","v","e","l","o","p","e","r">>

\* leading whitespace, doubled spaces and a line break: not in normal form
ManualDirty == <<" "," ","m","a","c","h","i","n","e"," "," ","l","e","a","r","n","i","n","g"," ","e","n","g","i","n","e","e","r","\n">> \o Pad(80)

ManualNoSkills == Pad(110)

ManualTexts == {BlankPage, ManualShort, ManualDirty, LongPage, ManualNoSkills}

JobDescriptions == {<<>>, ScenarioText, <<" ","z","z","z"," ">>}

\* Cosine similarities the embedding capability may yield, in 1/100000.
SimValues == {-100000, -33335, 81235, 100000}

Strategies == {"pypdf", "pdfplumber", "ocr"}

\* ------------------------------------------------------------ chain
\* for page in pages: if page.extract_text(): text += page.extract_text() + " "
pages_text(pages) ==
    LET f[i \in 0..Len(pages)] ==
            IF i = 0 THEN <<>>
            ELSE IF pages[i] # <<>> THEN f[i-1] \o pages[i] \o <<" ">>
                 ELSE f[i-1]
    IN  f[Len(pages)]

\* for img in images: text += pytesseract.image_to_string(img) + " "
images_text(images) ==
    LET f[i \in 0..Len(images)] ==
            IF i = 0 THEN <<>> ELSE f[i-1] \o images[i] \o <<" ">>
    IN  f[Len(images)]

\* extract_text_with_ocr, line 120, for the texts the engine recognizes
extract_text_with_ocr(images) == clean_text(images_text(images))

\* `if not text.strip()`, line 141
plumber_needed(t) == strip(t) = <<>>

\* The mutant of ocr_needed that runs the OCR fallback unconditionally.
ocr_needed_always(t) == TRUE

\* `if len(text.strip()) < 100`, line 152
ocr_needed(t) == Len(strip(t)) < MinTextLen

\* Strategy 1, lines 132-138.  The reader yields some pages and then either
\* finishes or raises; it leaves the buffer position wherever it stopped.
TryPyPDF ==
    /\ pc = "pypdf"
    /\ \E pages \in PageSeqs, raised \in BOOLEAN, p \in 0..BufLen :
        /\ text' = text \o pages_text(pages)
        /\ out' = [out EXCEPT !.pypdf = pages_text(pages)]
        /\ failed' = IF raised THEN failed \cup {"pypdf"} ELSE failed
        /\ pos' = p
    /\ calls' = Append(calls, "pypdf")
    /\ startPos' = [startPos EXCEPT !.pypdf = pos]
    /\ pc' = "pdfplumber"
    /\ UNCHANGED <<resume_file, manual_resume_text, job_description,
                   resume_text, jd_text, resume_skills, jd_skills, similarity,
                   semantic_score, keyword_score, final_score, feedback>>

\* Strategy 2, lines 141-149.
TryPdfplumber ==
    /\ pc = "pdfplumber"
    /\ IF plumber_needed(text)
       THEN /\ \E pages \in PageSeqs, raised \in BOOLEAN, p \in 0..BufLen :
                /\ text' = text \o pages_text(pages)
                /\ out' = [out EXCEPT !.pdfplumber = pages_text(pages)]
                /\ failed' = IF raised THEN failed \cup {"pdfplumber"} ELSE failed
                /\ pos' = p
            /\ calls' = Append(calls, "pdfplumber")
            /\ startPos' = [startPos EXCEPT !.pdfplumber = pos]
       ELSE UNCHANGED <<text, out, failed, pos, calls, startPos>>
    /\ pc' = "ocr"
    /\ UNCHANGED <<resume_file, manual_resume_text, job_description,
                   resume_text, jd_text, resume_skills, jd_skills, similarity,
                   semantic_score, keyword_score, final_score, feedback>>

\* The mutant of TryOCR without the try/except: a failure propagates.
TryOCR_nocatch ==
    /\ pc = "ocr"
    /\ IF ocr_needed(text)
       THEN \/ /\ failed' = failed \cup {"seek"}
               /\ pc' = "error"
               /\ UNCHANGED <<text, out, pos, calls, startPos>>
            \/ /\ calls' = Append(calls, "ocr")
               /\ startPos' = [startPos EXCEPT !.ocr = 0]
               /\ pos' = BufLen
               /\ \E images \in ImageSeqs, raised \in BOOLEAN :
                    IF raised
                    THEN /\ failed' = failed \cup {"ocr"}
                         /\ pc' = "error"
                         /\ UNCHANGED <<text, out>>
                    ELSE /\ text' = extract_text_with_ocr(images)
                         /\ out' = [out EXCEPT !.ocr = images_text(images)]
                         /\ pc' = "return"
                         /\ UNCHANGED failed
       ELSE /\ pc' = "return"
            /\ UNCHANGED <<text, out, failed, pos, calls, startPos>>
    /\ UNCHANGED <<resume_file, manual_resume_text, job_description,
                   resume_text, jd_text, resume_skills, jd_skills, similarity,
                   semantic_score, keyword_score, final_score, feedback>>

\* The mutant of TryOCR that appends (text += ...) instead of assigning.
TryOCR_append ==
    /\ pc = "ocr"
    /\ IF ocr_needed(text)
       THEN \/ /\ failed' = failed \cup {"seek"}
               /\ UNCHANGED <<text, out, pos, calls, startPos>>
            \/ /\ calls' = Append(calls, "ocr")
               /\ startPos' = [startPos EXCEPT !.ocr = 0]
               /\ pos' = BufLen
               /\ \E images \in ImageSeqs, raised \in BOOLEAN :
                    IF raised
                    THEN /\ failed' = failed \cup {"ocr"}
                         /\ UNCHANGED <<text, out>>
                    ELSE /\ text' = text \o extract_text_with_ocr(images)
                         /\ out' = [out EXCEPT !.ocr = images_text(images)]
                         /\ UNCHANGED failed
       ELSE UNCHANGED <<text, out, failed, pos, calls, startPos>>
    /\ pc' = "return"
    /\ UNCHANGED <<resume_file, manual_resume_text, job_description,
                   resume_text, jd_text, resume_skills, jd_skills, similarity,
                   semantic_score, keyword_score, final_score, feedback>>

\* Strategy 3, lines 152-157.  pdf_file.seek(0) rewinds the buffer, read()
\* consumes it, and the rasterizer or the OCR engine may raise; the bare
\* except leaves text as it was.
TryOCR ==
    /\ pc = "ocr"
    /\ IF ocr_needed(text)
       THEN \/ /\ failed' = failed \cup {"seek"}
               /\ UNCHANGED <<text, out, pos, calls, startPos>>
            \/ /\ calls' = Append(calls, "ocr")
               /\ startPos' = [startPos EXCEPT !.ocr = 0]
               /\ pos' = BufLen
               /\ \E images \in ImageSeqs, raised \in BOOLEAN :
                    IF raised
                    THEN /\ failed' = failed \cup {"ocr"}
                         /\ UNCHANGED <<text, out>>
                    ELSE /\ text' = extract_text_with_ocr(images)
                         /\ out' = [out EXCEPT !.ocr = images_text(images)]
                         /\ UNCHANGED failed
       ELSE UNCHANGED <<text, out, failed, pos, calls, startPos>>
    /\ pc' = "return"
    /\ UNCHANGED <<resume_file, manual_resume_text, job_description,
                   resume_text, jd_text, resume_skills, jd_skills, similarity,
                   semantic_score, keyword_score, final_score, feedback>>

\* `return clean_text(text)`, line 159, assigned to resume_text at line 228.
ReturnText ==
    /\ pc = "return"
    /\ resume_text' = clean_text(text)
    /\ pc' = "clean_jd"
    /\ UNCHANGED <<resume_file, manual_resume_text, job_description, pos, text,
                   jd_text, resume_skills, jd_skills, similarity,
                   semantic_score, keyword_score, final_score, feedback,
                   calls, startPos, out, failed>>

\* ------------------------------------------------------------ handler
\* The button handler up to the choice of the resume text, lines 220-228.
ClickAnalyze ==
    /\ pc = "idle"
    /\ IF (resume_file \/ strip(manual_resume_text) # <<>>)
          /\ strip(job_description) # <<>>
       THEN IF strip(manual_resume_text) # <<>>
            THEN /\ resume_text' = manual_resume_text
                 /\ pc' = "clean_jd"
                 /\ UNCHANGED text
            ELSE /\ text' = <<>>
                 /\ pc' = "pypdf"
                 /\ UNCHANGED resume_text
       ELSE /\ pc' = "warn_missing"
            /\ UNCHANGED <<text, resume_text>>
    /\ UNCHANGED <<resume_file, manual_resume_text, job_description, pos,
                   jd_text, resume_skills, jd_skills, similarity,
                   semantic_score, keyword_score, final_score, feedback,
                   calls, startPos, out, failed>>

\* `jd_text = clean_text(job_description)`, line 231
CleanJD ==
    /\ pc = "clean_jd"
    /\ jd_text' = clean_text(job_description)
    /\ pc' = "check"
    /\ UNCHANGED <<resume_file, manual_resume_text, job_description, pos, text,
                   resume_text, resume_skills, jd_skills, similarity,
                   semantic_score, keyword_score, final_score, feedback,
                   calls, startPos, out, failed>>

\* The two length checks, lines 234-250; each warns and stops the run.
SafetyCheck ==
    /\ pc = "check"
    /\ pc' = IF Len(strip(resume_text)) < MinTextLen THEN "warn_unreadable"
             ELSE IF Len(strip(resume_text)) < MinTextLenStrict
                  THEN "warn_unreadable"
                  ELSE "skills"
    /\ UNCHANGED <<resume_file, manual_resume_text, job_description, pos, text,
                   resume_text, jd_text, resume_skills, jd_skills, similarity,
                   semantic_score, keyword_score, final_score, feedback,
                   calls, startPos, out, failed>>

\* Lines 252-253.
ExtractSkills ==
    /\ pc = "skills"
    /\ resume_skills' = extract_canonical_skills(resume_text)
    /\ jd_skills' = extract_canonical_skills(jd_text)
    /\ pc' = "substitute"
    /\ UNCHANGED <<resume_file, manual_resume_text, job_description, pos, text,
                   resume_text, jd_text, similarity,
                   semantic_score, keyword_score, final_score, feedback,
                   calls, startPos, out, failed>>

\* The mutant of SubstituteJD that leaves an empty jd_skills as it is.
SubstituteJD_skip ==
    /\ pc = "substitute"
    /\ pc' = "score"
    /\ UNCHANGED <<resume_file, manual_resume_text, job_description, pos, text,
                   resume_text, jd_text, resume_skills, jd_skills, similarity,
                   semantic_score, keyword_score, final_score, feedback,
                   calls, startPos, out, failed>>

\* `if not jd_skills: jd_skills = resume_skills.copy()`, lines 255-256
SubstituteJD ==
    /\ pc = "substitute"
    /\ jd_skills' = IF jd_skills = {} THEN resume_skills ELSE jd_skills
    /\ pc' = "score"
    /\ UNCHANGED <<resume_file, manual_resume_text, job_description, pos, text,
                   resume_text, jd_text, resume_skills, similarity,
                   semantic_score, keyword_score, final_score, feedback,
                   calls, startPos, out, failed>>

\* What cosine_similarity can return at line 170: the embedding is
\* deterministic, so two SkillSets of the same tags, joined to the same
\* words, are never scored as dissimilar.
CosineValues(rs, js) ==
    IF rs = js THEN {v \in SimValues : v > 0} ELSE SimValues

\* The mutant of Score that swallows an embedding failure and reports 0.
Score_swallow ==
    /\ pc = "score"
    /\ \/ /\ failed' = failed \cup {"embedding"}
          /\ similarity' = 0
       \/ /\ similarity' \in CosineValues(resume_skills, jd_skills)
          /\ UNCHANGED failed
    /\ semantic_score' = semantic_match_score(similarity')
    /\ keyword_score' = keyword_match_score(resume_skills, jd_skills)
    /\ final_score' = combined_score(semantic_score', keyword_score')
    /\ feedback' = generate_ai_feedback(final_score', resume_skills, jd_skills)
    /\ pc' = "success"
    /\ UNCHANGED <<resume_file, manual_resume_text, job_description, pos, text,
                   resume_text, jd_text, resume_skills, jd_skills,
                   calls, startPos, out>>

\* Lines 258-274.  embed_model.encode is called outside any try: when it
\* raises, the exception leaves the handler; otherwise the scores and the
\* feedback are computed and shown.
Score ==
    /\ pc = "score"
    /\ \/ /\ failed' = failed \cup {"embedding"}
          /\ pc' = "error"
          /\ UNCHANGED <<similarity, semantic_score, keyword_score,
                         final_score, feedback>>
       \/ /\ similarity' \in CosineValues(resume_skills, jd_skills)
          /\ semantic_score' = semantic_match_score(similarity')
          /\ keyword_score' = keyword_match_score(resume_skills, jd_skills)
          /\ final_score' = combined_score(semantic_score', keyword_score')
          /\ feedback' = generate_ai_feedback(final_score', resume_skills, jd_skills)
          /\ pc' = "success"
          /\ UNCHANGED failed
    /\ UNCHANGED <<resume_file, manual_resume_text, job_description, pos, text,
                   resume_text, jd_text, resume_skills, jd_skills,
                   calls, startPos, out>>

\* The widgets' values when the button is clicked, lines 212-217; the
\* uploaded buffer is fresh, its read position at the start.
Init ==
    /\ pc = "idle"
    /\ resume_file \in BOOLEAN
    /\ manual_resume_text \in ManualTexts
    /\ job_description \in JobDescriptions
    /\ pos = 0
    /\ text = <<>>
    /\ resume_text = <<>>
    /\ jd_text = <<>>
    /\ resume_skills = {}
    /\ jd_skills = {}
    /\ similarity = 0
    /\ semantic_score = 0
    /\ keyword_score = 0
    /\ final_score = 0
    /\ feedback = generate_ai_feedback(0, {}, {})
    /\ calls = <<>>
    /\ startPos = [s \in Strategies |-> -1]
    /\ out = [s \in Strategies |-> <<>>]
    /\ failed = {}

Next ==
    \/ ClickAnalyze
    \/ TryPyPDF
    \/ TryPdfplumber
    \/ TryOCR
    \/ ReturnText
    \/ CleanJD
    \/ SafetyCheck
    \/ ExtractSkills
    \/ SubstituteJD
    \/ Score

Spec == Init /\ [][Next]_vars

\* ------------------------------------------------------------ scoring alone
\* keyword_match_score applied to every pair of bounded SkillSets.
SkillSets == {S \in SUBSET Tags : Cardinality(S) <= MaxSkills}

InitScore ==
    /\ pc = "kw_call"
    /\ resume_skills \in SkillSets
    /\ jd_skills \in SkillSets
    /\ resume_file = FALSE
    /\ manual_resume_text = <<>>
    /\ job_description = <<>>
    /\ pos = 0
    /\ text = <<>>
    /\ resume_text = <<>>
    /\ jd_text = <<>>
    /\ similarity = 0
    /\ semantic_score = 0
    /\ keyword_score = 0
    /\ final_score = 0
    /\ feedback = generate_ai_feedback(0, {}, {})
    /\ calls = <<>>
    /\ startPos = [s \in Strategies |-> -1]
    /\ out = [s \in Strategies |-> <<>>]
    /\ failed = {}

CallKeywordScore ==
    /\ pc = "kw_call"
    /\ keyword_score' = keyword_match_score(resume_skills, jd_skills)
    /\ pc' = "kw_done"
    /\ UNCHANGED <<resume_file, manual_resume_text, job_description, pos, text,
                   resume_text, jd_text, resume_skills, jd_skills, similarity,
                   semantic_score, final_score, feedback,
                   calls, startPos, out, failed>>

NextScore == CallKeywordScore

SpecScore == InitScore /\ [][NextScore]_vars

\* ------------------------------------------------------------ properties
Max(a, b) == IF a >= b THEN a ELSE b

\* The number of characters of t that are not whitespace.
NonWhitespace(t) == Cardinality({i \in 1..Len(t) : ~IsSpace(t[i])})

SD == "software development"

WD == "web development"

UX == "ui ux design"

\* extract_text_from_pdf was called and has returned (or raised).
ChainDone ==
    /\ calls # <<>>
    /\ pc \in {"clean_jd", "check", "warn_unreadable", "skills",
               "substitute", "score", "success", "error"}

\* The run of the handler is over.
Terminal == pc \in {"warn_missing", "warn_unreadable", "success", "error"}

OcrFailed == "seek" \in failed \/ "ocr" \in failed

\* Strategy s was invoked.
Called(s) == \E i \in 1..Len(calls) : calls[i] = s

OcrSucceeded == Called("ocr") /\ "ocr" \notin failed

\* C1 as claimed: extract_text_from_pdf never raises to its caller, and
\* every strategy that fails contributes zero text.
C1_NeverRaisesAndFailureIsZeroText ==
    /\ pc = "error" => "embedding" \in failed
    /\ ChainDone =>
        /\ resume_text = clean_text(text)
        /\ \A s \in Strategies : s \in failed => out[s] = <<>>
        /\ "seek" \in failed => out.ocr = <<>>

\* C1 as amended: extract_text_from_pdf never raises to its caller and
\* returns the normalized accumulator; a failed OCR attempt (rewind,
\* rasterizer or engine) contributes no text, so the result is then the
\* normalization of what strategies 1 and 2 read, a reader that failed
\* part-way keeping the pages it had read before the failure.
C1_NeverRaisesFailedOcrIsZeroText ==
    /\ pc = "error" => "embedding" \in failed
    /\ ChainDone =>
        /\ resume_text = clean_text(text)
        /\ OcrFailed =>
            /\ out.ocr = <<>>
            /\ resume_text = clean_text(out.pypdf \o out.pdfplumber)

\* C1 witness: the chain has returned although the first reader raised after
\* reading a page and the OCR attempt raised too.
C1_Witness ==
    /\ ChainDone
    /\ {"pypdf", "ocr"} \subseteq failed
    /\ out.pypdf # <<>>

\* C2: the strategies are invoked in the order pypdf, pdfplumber, OCR, a
\* later one only when the text accumulated by the earlier ones has fewer
\* than 100 non-whitespace characters; with 100 or more from the first
\* reader, neither pdfplumber nor OCR is invoked.
C2_StrictOrderBelowThreshold ==
    /\ calls \in {<<>>, <<"pypdf">>, <<"pypdf", "pdfplumber">>,
                  <<"pypdf", "ocr">>, <<"pypdf", "pdfplumber", "ocr">>}
    /\ Called("pdfplumber") =>
            NonWhitespace(out.pypdf) < MinTextLen
    /\ Called("ocr") =>
            NonWhitespace(out.pypdf \o out.pdfplumber) < MinTextLen
    /\ NonWhitespace(out.pypdf) >= MinTextLen /\ ChainDone => calls = <<"pypdf">>

\* C2 witness: the chain returned after the first reader alone produced 100
\* or more non-whitespace characters.
C2_Witness ==
    /\ ChainDone
    /\ NonWhitespace(out.pypdf) >= MinTextLen
    /\ calls = <<"pypdf">>

\* `len(strip(t)) >= 100`: the strategy's output clears the threshold
Cleared(t) == Len(strip(t)) >= MinTextLen

\* C3 as claimed: the result is the normalization of the output of the first
\* strategy that cleared the threshold, or else of the concatenation of the
\* text of all attempted strategies.
C3_FirstClearingOrConcatenation ==
    ChainDone =>
        resume_text =
            IF Cleared(out.pypdf) THEN clean_text(out.pypdf)
            ELSE IF Cleared(out.pdfplumber) THEN clean_text(out.pdfplumber)
            ELSE IF Cleared(out.ocr) THEN clean_text(out.ocr)
            ELSE clean_text(out.pypdf \o out.pdfplumber \o out.ocr)

\* C3 as amended: when the OCR strategy runs and succeeds the result is the
\* normalization of the OCR output alone (the text of strategies 1 and 2 is
\* discarded); otherwise it is the normalization of the concatenation of
\* the text of strategies 1 and 2.
C3_OcrReplacesAccumulator ==
    ChainDone =>
        resume_text =
            IF OcrSucceeded THEN clean_text(out.ocr)
            ELSE clean_text(out.pypdf \o out.pdfplumber)

\* C3 witness: OCR succeeded after an earlier reader had produced text.
C3_Witness ==
    /\ ChainDone
    /\ OcrSucceeded
    /\ strip(out.pypdf) # <<>>
    /\ strip(out.ocr) # <<>>

\* C4 as claimed: an empty job-description SkillSet is replaced by the
\* resume's and the keyword score is then 100, missing and extra empty, for
\* every resume SkillSet.
C4_EmptyJDScoresFull ==
    pc = "success" /\ extract_canonical_skills(jd_text) = {} =>
        /\ jd_skills = resume_skills
        /\ keyword_score = 10000
        /\ feedback.missing = {} /\ feedback.extra = {}

\* C4 as amended: an empty job-description SkillSet is replaced by the
\* resume's before scoring, missing and extra are empty, and the keyword
\* score is 100 when the resume SkillSet is not empty and 0 when it is.
C4_EmptyJDScoresFullUnlessResumeEmpty ==
    pc = "success" /\ extract_canonical_skills(jd_text) = {} =>
        /\ jd_skills = resume_skills
        /\ keyword_score = IF resume_skills = {} THEN 0 ELSE 10000
        /\ feedback.missing = {} /\ feedback.extra = {}

\* C4 witness: a scored request whose job description matched no tag while
\* the resume matched some.
C4_Witness ==
    /\ pc = "success"
    /\ extract_canonical_skills(jd_text) = {}
    /\ resume_skills # {}

\* C5: the semantic score is max(0, similarity) * 100 rounded to two
\* decimals, so it lies in [0, 100].
C5_SemanticScoreClamped ==
    pc = "success" =>
        /\ semantic_score \in 0..10000
        /\ semantic_score = RoundDiv(Max(0, similarity) * 100 * 100, 100000)

\* C6: keyword_match_score lies in [0, 100], is 100 exactly when the
\* job-description set is non-empty and a subset of the resume set, and is
\* 0 when the job-description set or the intersection is empty.
C6_KeywordScoreBounds ==
    pc = "kw_done" =>
        /\ keyword_score \in 0..10000
        /\ keyword_score = 10000 <=>
                (jd_skills # {} /\ jd_skills \subseteq resume_skills)
        /\ jd_skills = {} \/ resume_skills \cap jd_skills = {} =>
                keyword_score = 0

\* C6 witness: a non-empty job-description set strictly inside the resume's.
C6_Witness ==
    /\ pc = "kw_done"
    /\ jd_skills # {}
    /\ jd_skills \subseteq resume_skills
    /\ jd_skills # resume_skills

\* C7 as claimed: the scenario text yields exactly software development and
\* web development.
C7_ScenarioTwoTags ==
    pc = "substitute" /\ jd_text = ScenarioText => jd_skills = {SD, WD}

\* C7 as amended: the scenario text yields software development, web
\* development and ui ux design, the trigger "ui" occurring in "building".
C7_ScenarioThreeTags ==
    pc = "substitute" /\ jd_text = ScenarioText => jd_skills = {SD, WD, UX}

\* C7 witness: the matcher has just run on the scenario text.
C7_Witness == pc = "substitute" /\ jd_text = ScenarioText

\* C8: with non-blank manual text no extraction strategy runs and the text
\* checked and matched is the normalized manual text.
C8_ManualTextNormalized ==
    pc \in {"check", "skills", "substitute"} /\ strip(manual_resume_text) # <<>> =>
        /\ calls = <<>>
        /\ resume_text = clean_text(manual_resume_text)

\* C9 as claimed: a request in which the OCR or the embedding capability
\* failed ends in the failure outcome, never in a warning or a score.
C9_OutageEndsInFailure ==
    Terminal /\ (OcrFailed \/ "embedding" \in failed) => pc = "error"

\* C9 as amended: a request ends in the failure outcome exactly when the
\* embedding capability failed; a failure of the OCR capability is absorbed
\* by the chain and the request ends in the unreadable-text warning.
C9_OnlyEmbeddingOutageIsFatal ==
    Terminal =>
        /\ pc = "error" <=> "embedding" \in failed
        /\ OcrFailed => pc = "warn_unreadable"

\* C9 witness: the OCR capability failed and the request ended in the
\* warning.
C9_Witness == pc = "warn_unreadable" /\ "ocr" \in failed

\* C10: every strategy that is attempted begins with the buffer's read
\* position at 0.
C10_EveryStrategyStartsRewound ==
    \A s \in Strategies : startPos[s] \in {-1, 0}

====
